---- MODULE Spec2Model ----
(***************************************************************************)
(* The room registry and the socket handlers of src/client.js (the         *)
(* RaveClone backend, lines 106-290): one action per socket.on(...)        *)
(* listener.  A listener runs to completion on Node's single thread; the   *)
(* events it emitted stay in `outbox` until the turn ends (EndTurn).       *)
(***************************************************************************)
EXTENDS Integers, Sequences, FiniteSets, TLC

\* ---------------------------------------------------------------- bounds
MaxUsers == 3    \* longest users list a room is let grow to
MaxQueue == 3    \* longest queue a room is let grow to
MaxTime  == 1    \* largest playback position a request carries

Conns    == {"s1", "s2", "s3"}          \* connection ids (socket.id)
Codes    == {"R1", "R2"}                \* the code space of generateRoomCode
Names    == {"ann", "bob"}              \* userName values
Media    == {"m1", "m2"}                \* media references
Payloads == {"p1", "p2"}                \* offer / answer / candidate payloads
Messages == {"hi"}                      \* chat messages
Times    == 0..MaxTime

\* ------------------------------------------------------------- JS values
NaN == -2                                \* stands for the Number NaN (x % 0)
Null == "null"
Undefined == "undefined"

\* a + b on Numbers: NaN is absorbing
JsAdd(a, b) == IF a = NaN \/ b = NaN THEN NaN ELSE a + b

\* a % n on Numbers: NaN when n is 0 or an operand is NaN, else the remainder
\* with the sign of a
JsMod(a, n) ==
    IF a = NaN \/ n = NaN \/ n = 0 THEN NaN
    ELSE IF a < 0 THEN 0 - ((0 - a) % n) ELSE a % n

\* arr[i]: undefined when i is no index of arr (NaN included)
JsIndex(arr, i) == IF i \in 0..(Len(arr) - 1) THEN arr[i + 1] ELSE Undefined

\* arr.filter(u => u.id !== id)
RECURSIVE FilterOut(_, _)
FilterOut(us, id) ==
    IF us = <<>> THEN <<>>
    ELSE IF Head(us).id = id THEN FilterOut(Tail(us), id)
         ELSE <<Head(us)>> \o FilterOut(Tail(us), id)

\* MapNames sending the connection ids in place of the names
MapIds(us) == [i \in 1..Len(us) |-> us[i].id]

\* arr.map(u => u.name)
MapNames(us) == [i \in 1..Len(us) |-> us[i].name]

\* the elements of an array
Range(arr) == {arr[i] : i \in 1..Len(arr)}

\* set.add(x) on a Set kept in insertion order
SetAdd(arr, x) == IF x \in Range(arr) THEN arr ELSE Append(arr, x)

\* the ids of a users list
UserIds(us) == {us[i].id : i \in 1..Len(us)}

\* arr.find(u => u.id === id) finds an entry
HasUser(us, id) == id \in UserIds(us)

\* arr.find(u => u.id === id): the first entry with that id
FindUser(us, id) ==
    us[CHOOSE i \in 1..Len(us) :
           us[i].id = id /\ \A j \in 1..(i - 1) : us[j].id # id]

\* ------------------------------------------------------------------ state
VARIABLES
    conn,         \* conn[c]: "new" (never connected), "open", "closed"
    socketRooms,  \* socketRooms[c]: socket.rooms, the transport groups of c,
                  \* a Set, kept in insertion order
    rooms,        \* the registry: room code -> room (the Map `rooms`)
    outbox,       \* the emits of the listener that ran this turn, in order
    last          \* the listener that ran this turn and how it returned

vars == <<conn, socketRooms, rooms, outbox, last>>

Idle == [op |-> "idle", result |-> "idle"]

\* the value of Date.now() in the listener that runs: one value per turn, of
\* which only its presence in an event is kept
Now == "Date.now()"

\* one emit: the event name, the connections the transport hands it to, its data
Ev(name, to, data) == [ev |-> name, to |-> to, data |-> data]

\* the open connections in the transport group `name` (io.to(name))
Group(sr, name) == {d \in Conns : conn[d] = "open" /\ name \in Range(sr[d])}

Init ==
    /\ conn = [c \in Conns |-> "new"]
    /\ socketRooms = [c \in Conns |-> <<>>]
    /\ rooms = <<>>
    /\ outbox = <<>>
    /\ last = Idle

\* the server is between listeners and c can send it an event
Ready(c) == last = Idle /\ conn[c] = "open"

\* io.on('connection'): the transport puts the socket in the group of its own id
Connect(c) ==
    /\ last = Idle
    /\ conn[c] = "new"
    /\ conn' = [conn EXCEPT ![c] = "open"]
    /\ socketRooms' = [socketRooms EXCEPT ![c] = <<c>>]
    /\ outbox' = <<>>
    /\ last' = [op |-> "connection", result |-> "ok"]
    /\ UNCHANGED rooms

\* the listener returned: the transport has taken the emits, the next event runs
EndTurn ==
    /\ last # Idle
    /\ last.result # "spinning"
    /\ last' = Idle
    /\ outbox' = <<>>
    /\ UNCHANGED <<conn, socketRooms, rooms>>

\* a listener that returns early: nothing written, nothing emitted
Return(op, why) ==
    /\ last' = [op |-> op, result |-> why]
    /\ outbox' = <<>>
    /\ UNCHANGED <<conn, socketRooms, rooms>>

\* ------------------------------------------------------------ join / create
\* socket.on('join-room')
\* NotFound sending the error to every open connection
NotFoundToAll(c) ==
    <<Ev("error", {d \in Conns : conn[d] = "open"}, [msg |-> "Room not found"])>>

\* socket.emit('error', { msg: 'Room not found' })
NotFound(c) == <<Ev("error", {c}, [msg |-> "Room not found"])>>

JoinRoom(c, roomCode, userName) ==
    /\ Ready(c)
    /\ IF roomCode \notin DOMAIN rooms
       THEN /\ last' = [op |-> "join-room", result |-> "room-not-found"]
            /\ outbox' = NotFound(c)
            /\ UNCHANGED <<conn, socketRooms, rooms>>
       ELSE /\ Len(rooms[roomCode].users) < MaxUsers
            /\ LET sr == [socketRooms EXCEPT ![c] = SetAdd(@, roomCode)]
                   room == [rooms[roomCode] EXCEPT
                              !.users = Append(@, [id |-> c, name |-> userName])]
               IN /\ socketRooms' = sr
                  /\ rooms' = [rooms EXCEPT ![roomCode] = room]
                  /\ outbox' =
                       << Ev("user-joined", Group(sr, roomCode) \ {c},
                             [name |-> userName]),
                          Ev("room-state", {c},
                             [media |-> room.media,
                              queue |-> room.queue,
                              currentIndex |-> room.currentIndex,
                              isPlaying |-> room.isPlaying,
                              currentTime |-> room.currentTime,
                              hostId |-> room.hostId,
                              users |-> MapNames(room.users)]) >>
            /\ last' = [op |-> "join-room", result |-> "ok"]
            /\ UNCHANGED conn

\* FreeCodes without the rooms.has test of the loop
AnyCode(rs, space) == space

\* the codes the do..while of create-room can leave the loop with, when
\* generateRoomCode draws from `space`: it draws until one is no key of rs
FreeCodes(rs, space) == space \ DOMAIN rs

\* the room create-room stores
NewRoom(c, userName) ==
    [hostId |-> c, media |-> Null, queue |-> <<>>, currentIndex |-> 0,
     isPlaying |-> FALSE, currentTime |-> 0,
     users |-> <<[id |-> c, name |-> userName]>>]

\* socket.on('create-room'), generateRoomCode drawing from `space`: with every
\* code taken the loop never ends and the thread, hence the server, is stuck
CreateRoom(c, userName, space) ==
    /\ Ready(c)
    /\ IF FreeCodes(rooms, space) = {}
       THEN Return("create-room", "spinning")
       ELSE \E roomCode \in FreeCodes(rooms, space) :
              /\ rooms' = [k \in DOMAIN rooms \cup {roomCode} |->
                             IF k = roomCode THEN NewRoom(c, userName)
                             ELSE rooms[k]]
              /\ outbox' = <<Ev("room-created", {c}, [roomCode |-> roomCode])>>
              /\ socketRooms' = [socketRooms EXCEPT ![c] = SetAdd(@, roomCode)]
              /\ last' = [op |-> "create-room", result |-> "ok"]
              /\ UNCHANGED conn

\* LoopAgain with the test of the while inverted
LoopWhileFree(rs, roomCode) == roomCode \notin DOMAIN rs

\* while (rooms.has(roomCode))
LoopAgain(rs, roomCode) == roomCode \in DOMAIN rs

\* the server is inside the do..while of a create-room
Drawing == last.op = "create-room" /\ last.result = "spinning"

\* socket.on('create-room') up to the do: `let roomCode` is declared, the
\* listener holds the thread, and socket and userName are its closure
CreateBegin(c, userName) ==
    /\ Ready(c)
    /\ last' = [op |-> "create-room", result |-> "spinning", socket |-> c,
                userName |-> userName, roomCode |-> Undefined]
    /\ UNCHANGED <<conn, socketRooms, rooms, outbox>>

\* one pass of the do..while, generateRoomCode returning `code`: either the
\* loop goes round again or the listener runs to its end
Draw(code) ==
    /\ Drawing
    /\ IF LoopAgain(rooms, code)
       THEN /\ last' = [last EXCEPT !.roomCode = code]
            /\ UNCHANGED <<conn, socketRooms, rooms, outbox>>
       ELSE /\ rooms' = [k \in DOMAIN rooms \cup {code} |->
                           IF k = code THEN NewRoom(last.socket, last.userName)
                           ELSE rooms[k]]
            /\ outbox' = <<Ev("room-created", {last.socket}, [roomCode |-> code])>>
            /\ socketRooms' = [socketRooms EXCEPT ![last.socket] = SetAdd(@, code)]
            /\ last' = [op |-> "create-room", result |-> "ok"]
            /\ UNCHANGED conn

\* ------------------------------------------------------- host-gated controls
\* Gate without the hostId guard
GateNoHost(c, roomCode) ==
    IF roomCode \notin DOMAIN rooms \/ roomCode \notin Range(socketRooms[c])
    THEN "not-in-room" ELSE "ok"

\* the two guards every control listener opens with: "ok" when both pass
Gate(c, roomCode) ==
    IF roomCode \notin DOMAIN rooms \/ roomCode \notin Range(socketRooms[c])
    THEN "not-in-room"
    ELSE IF rooms[roomCode].hostId # c THEN "not-host" ELSE "ok"

\* a control listener whose guards passed: the room it wrote, what it emitted
Commit(op, roomCode, room, emits) ==
    /\ rooms' = [rooms EXCEPT ![roomCode] = room]
    /\ outbox' = emits
    /\ last' = [op |-> op, result |-> "ok"]
    /\ UNCHANGED <<conn, socketRooms>>

\* Loaded leaving currentIndex where it was when the queue is replaced
LoadedKeepsIndex(old, media, addToQueue) ==
    IF addToQueue
    THEN [old EXCEPT !.queue = Append(@, media)]
    ELSE [old EXCEPT !.media = media, !.queue = <<media>>]

\* the room after the if/else of load-media
Loaded(old, media, addToQueue) ==
    IF addToQueue
    THEN [old EXCEPT !.queue = Append(@, media)]
    ELSE [old EXCEPT !.media = media,
                     !.currentIndex = 0,
                     !.queue = <<media>>]

\* socket.on('load-media')
LoadMedia(c, roomCode, media, addToQueue) ==
    /\ Ready(c)
    /\ IF Gate(c, roomCode) # "ok"
       THEN Return("load-media", Gate(c, roomCode))
       ELSE /\ addToQueue => Len(rooms[roomCode].queue) < MaxQueue
            /\ LET room == Loaded(rooms[roomCode], media, addToQueue)
               IN Commit("load-media", roomCode, room,
                         <<Ev("media-updated", Group(socketRooms, roomCode),
                              [media |-> media, queue |-> room.queue,
                               currentIndex |-> room.currentIndex])>>)

\* Play broadcasting through socket.to: everyone in the room but the sender
PlayToOthers(c, roomCode, currentTime) ==
    /\ Ready(c)
    /\ IF Gate(c, roomCode) # "ok"
       THEN Return("play", Gate(c, roomCode))
       ELSE Commit("play", roomCode,
                   [rooms[roomCode] EXCEPT !.isPlaying = TRUE,
                                           !.currentTime = currentTime],
                   <<Ev("sync-play", Group(socketRooms, roomCode) \ {c},
                        [currentTime |-> currentTime, timestamp |-> Now,
                         offset |-> 0])>>)

\* socket.on('play')
Play(c, roomCode, currentTime) ==
    /\ Ready(c)
    /\ IF Gate(c, roomCode) # "ok"
       THEN Return("play", Gate(c, roomCode))
       ELSE Commit("play", roomCode,
                   [rooms[roomCode] EXCEPT !.isPlaying = TRUE,
                                           !.currentTime = currentTime],
                   <<Ev("sync-play", Group(socketRooms, roomCode),
                        [currentTime |-> currentTime, timestamp |-> Now,
                         offset |-> 0])>>)

\* Pause stopping every room the sender hosts, not only the one it names
PauseEveryRoom(c, roomCode) ==
    /\ Ready(c)
    /\ IF Gate(c, roomCode) # "ok"
       THEN Return("pause", Gate(c, roomCode))
       ELSE /\ rooms' = [r \in DOMAIN rooms |->
                           IF rooms[r].hostId = c
                           THEN [rooms[r] EXCEPT !.isPlaying = FALSE]
                           ELSE rooms[r]]
            /\ outbox' = <<Ev("sync-pause", Group(socketRooms, roomCode),
                              [timestamp |-> Now])>>
            /\ last' = [op |-> "pause", result |-> "ok"]
            /\ UNCHANGED <<conn, socketRooms>>

\* socket.on('pause')
Pause(c, roomCode) ==
    /\ Ready(c)
    /\ IF Gate(c, roomCode) # "ok"
       THEN Return("pause", Gate(c, roomCode))
       ELSE Commit("pause", roomCode,
                   [rooms[roomCode] EXCEPT !.isPlaying = FALSE],
                   <<Ev("sync-pause", Group(socketRooms, roomCode),
                        [timestamp |-> Now])>>)

\* socket.on('seek')
Seek(c, roomCode, newTime) ==
    /\ Ready(c)
    /\ IF Gate(c, roomCode) # "ok"
       THEN Return("seek", Gate(c, roomCode))
       ELSE Commit("seek", roomCode,
                   [rooms[roomCode] EXCEPT !.currentTime = newTime],
                   <<Ev("sync-seek", Group(socketRooms, roomCode),
                        [newTime |-> newTime, timestamp |-> Now])>>)

\* the index next-video moves to
NextIndex(i, n) == JsMod(JsAdd(i, 1), n)

\* the index prev-video moves to
PrevIndex(i, n) == JsMod(JsAdd(JsAdd(i, -1), n), n)

\* Navigate emitting sync-seek before media-updated
NavigateSeekFirst(op, roomCode, index) ==
    LET old == rooms[roomCode]
        room == [old EXCEPT !.currentIndex = index,
                            !.media = JsIndex(old.queue, index),
                            !.currentTime = 0,
                            !.isPlaying = FALSE]
    IN Commit(op, roomCode, room,
              << Ev("sync-seek", Group(socketRooms, roomCode),
                    [newTime |-> 0, timestamp |-> Now]),
                 Ev("media-updated", Group(socketRooms, roomCode),
                    [media |-> room.media, queue |-> room.queue,
                     currentIndex |-> room.currentIndex]) >>)

\* the body next-video and prev-video share, for the index they computed
Navigate(op, roomCode, index) ==
    LET old == rooms[roomCode]
        room == [old EXCEPT !.currentIndex = index,
                            !.media = JsIndex(old.queue, index),
                            !.currentTime = 0,
                            !.isPlaying = FALSE]
    IN Commit(op, roomCode, room,
              << Ev("media-updated", Group(socketRooms, roomCode),
                    [media |-> room.media, queue |-> room.queue,
                     currentIndex |-> room.currentIndex]),
                 Ev("sync-seek", Group(socketRooms, roomCode),
                    [newTime |-> 0, timestamp |-> Now]) >>)

\* socket.on('next-video')
NextVideo(c, roomCode) ==
    /\ Ready(c)
    /\ IF Gate(c, roomCode) # "ok"
       THEN Return("next-video", Gate(c, roomCode))
       ELSE Navigate("next-video", roomCode,
                     NextIndex(rooms[roomCode].currentIndex,
                               Len(rooms[roomCode].queue)))

\* socket.on('prev-video')
PrevVideo(c, roomCode) ==
    /\ Ready(c)
    /\ IF Gate(c, roomCode) # "ok"
       THEN Return("prev-video", Gate(c, roomCode))
       ELSE Navigate("prev-video", roomCode,
                     PrevIndex(rooms[roomCode].currentIndex,
                               Len(rooms[roomCode].queue)))

\* ------------------------------------------------------------ chat / voice
\* socket.on('send-chat'): the userName of the request is not read
SendChat(c, roomCode, message, userName) ==
    /\ Ready(c)
    /\ IF roomCode \notin DOMAIN rooms \/ roomCode \notin Range(socketRooms[c])
       THEN Return("send-chat", "not-in-room")
       ELSE IF ~HasUser(rooms[roomCode].users, c)
       THEN Return("send-chat", "no-user")
       ELSE /\ outbox' = <<Ev("new-chat", Group(socketRooms, roomCode),
                              [user |-> FindUser(rooms[roomCode].users, c).name,
                               message |-> message, timestamp |-> Now])>>
            /\ last' = [op |-> "send-chat", result |-> "ok"]
            /\ UNCHANGED <<conn, socketRooms, rooms>>

\* socket.to(targetId).to(roomCode): the receivers of a broadcast to the two
\* groups from socket c, which the transport leaves out
RelayTargets(c, roomCode, targetId) ==
    (Group(socketRooms, targetId) \cup Group(socketRooms, roomCode)) \ {c}

\* the body of the three signalling listeners
Relay(op, c, to, data) ==
    /\ Ready(c)
    /\ outbox' = <<Ev(op, to, data)>>
    /\ last' = [op |-> op, result |-> "ok"]
    /\ UNCHANGED <<conn, socketRooms, rooms>>

\* socket.on('voice-offer')
VoiceOffer(c, roomCode, offer, targetId) ==
    Relay("voice-offer", c, RelayTargets(c, roomCode, targetId),
          [offer |-> offer, fromId |-> c])

\* socket.on('voice-answer')
VoiceAnswer(c, roomCode, answer, targetId) ==
    Relay("voice-answer", c, RelayTargets(c, roomCode, targetId),
          [answer |-> answer, fromId |-> c])

\* socket.on('ice-candidate')
IceCandidate(c, roomCode, candidate, targetId) ==
    Relay("ice-candidate", c, RelayTargets(c, roomCode, targetId),
          [candidate |-> candidate, fromId |-> c])

\* --------------------------------------------------------------- disconnect
\* socket.rooms as the 'disconnect' listener reads it.  The groups are the
\* transport's, which is not part of src/: socket.io leaves every group before
\* it emits 'disconnect' (the groups are still there at 'disconnecting'), and
\* the listener then reads an empty Set; a transport that emits before it
\* leaves hands the listener the groups the socket was in.
RoomsAtDisconnect(c) == {socketRooms[c], <<>>}

\* rooms.delete(roomCode)
Delete(rs, roomCode) == [k \in DOMAIN rs \ {roomCode} |-> rs[k]]

\* LeaveRoom without the promotion of the next user
LeaveRoomNoPromote(room, c) ==
    [room EXCEPT !.users = FilterOut(room.users, c)]

\* what the loop body does to one room of the registry
LeaveRoom(room, c) ==
    LET users == FilterOut(room.users, c)
    IN [room EXCEPT !.users = users,
                    !.hostId = IF room.hostId = c /\ Len(users) > 0
                               THEN users[1].id ELSE @]

\* the for..of loop of the 'disconnect' listener over the groups `seen`, from
\* registry rs and the emits so far: the registry and the emits it ends with
RECURSIVE DisconnectLoop(_, _, _, _)
DisconnectLoop(seen, c, rs, emits) ==
    IF seen = <<>> THEN [rooms |-> rs, emits |-> emits]
    ELSE LET roomCode == Head(seen)
         IN IF roomCode \in DOMAIN rs /\ roomCode # c
            THEN LET room == LeaveRoom(rs[roomCode], c)
                 IN DisconnectLoop(
                      Tail(seen), c,
                      IF Len(room.users) = 0 THEN Delete(rs, roomCode)
                      ELSE [rs EXCEPT ![roomCode] = room],
                      Append(emits, Ev("user-left",
                                       Group(socketRooms, roomCode) \ {c},
                                       [id |-> c])))
            ELSE DisconnectLoop(Tail(seen), c, rs, emits)

\* socket.on('disconnect'): the transport has closed the connection
Disconnect(c) ==
    /\ Ready(c)
    /\ \E seen \in RoomsAtDisconnect(c) :
         LET end == DisconnectLoop(seen, c, rooms, <<>>)
         IN /\ rooms' = end.rooms
            /\ outbox' = end.emits
    /\ conn' = [conn EXCEPT ![c] = "closed"]
    /\ socketRooms' = [socketRooms EXCEPT ![c] = <<>>]
    /\ last' = [op |-> "disconnect", result |-> "ok"]

\* ------------------------------------------------------------ specification
\* One step of the server with the requests drawn from the sets of W: every
\* listener of the file, then the end of the turn.
Step(W) ==
    \/ \E c \in W.conns : Connect(c)
    \/ \E c \in W.conns, r \in W.codes, n \in W.names : JoinRoom(c, r, n)
    \/ \E c \in W.conns, n \in W.names : CreateRoom(c, n, W.codes)
    \/ \E c \in W.conns, r \in W.codes, m \in W.media, a \in W.adds :
         LoadMedia(c, r, m, a)
    \/ \E c \in W.conns, r \in W.codes, t \in W.times : Play(c, r, t)
    \/ \E c \in W.conns, r \in W.codes : Pause(c, r)
    \/ \E c \in W.conns, r \in W.codes, t \in W.times : Seek(c, r, t)
    \/ \E c \in W.conns, r \in W.codes : NextVideo(c, r)
    \/ \E c \in W.conns, r \in W.codes : PrevVideo(c, r)
    \/ \E c \in W.conns, r \in W.codes, m \in W.messages, n \in Names :
         SendChat(c, r, m, n)
    \/ \E c \in W.conns, r \in W.codes, p \in W.payloads, t \in W.targets :
         VoiceOffer(c, r, p, t)
    \/ \E c \in W.conns, r \in W.codes, p \in W.payloads, t \in W.targets :
         VoiceAnswer(c, r, p, t)
    \/ \E c \in W.conns, r \in W.codes, p \in W.payloads, t \in W.targets :
         IceCandidate(c, r, p, t)
    \/ \E c \in W.conns : Disconnect(c)
    \/ EndTurn

\* Bounded worlds of requests.  Every listener runs in each of them; they
\* differ in which inputs vary, so that each stays small enough to explore.
\* Hall: one room code, three connections (membership, host change, relay).
Hall ==
    [conns |-> Conns, codes |-> {"R1"}, names |-> {"ann"}, media |-> {"m1"},
     adds |-> {FALSE}, times |-> Times, messages |-> Messages,
     payloads |-> Payloads, targets |-> Conns \cup {"R1"}]

\* Studio: one room code, two connections, every playback and queue input.
Studio ==
    [conns |-> {"s1", "s2"}, codes |-> {"R1"}, names |-> {"ann"},
     media |-> Media, adds |-> BOOLEAN, times |-> Times,
     messages |-> Messages, payloads |-> {"p1"}, targets |-> {"s1"}]

\* Lobby: two room codes, two connections (the registry, several rooms).
Lobby ==
    [conns |-> {"s1", "s2"}, codes |-> Codes, names |-> {"ann"},
     media |-> {"m1"}, adds |-> {FALSE}, times |-> {0},
     messages |-> Messages, payloads |-> {"p1"}, targets |-> {"s2"}]

\* Foyer: one room code, three connections, two display names.
Foyer ==
    [conns |-> Conns, codes |-> {"R1"}, names |-> Names, media |-> {"m1"},
     adds |-> {FALSE}, times |-> {0}, messages |-> Messages,
     payloads |-> {"p1"}, targets |-> {"s1"}]

\* Solo: two room codes, one connection that can host both rooms.
Solo ==
    [conns |-> {"s1"}, codes |-> Codes, names |-> {"ann"}, media |-> {"m1"},
     adds |-> {FALSE}, times |-> Times, messages |-> Messages,
     payloads |-> {"p1"}, targets |-> {"s1"}]

\* Desk: the connections and the code space of the create-room loop.
Desk == [conns |-> {"s1", "s2"}, codes |-> Codes, names |-> {"ann"}]

\* The server with create-room taken one pass of its loop at a time.
NextDraw ==
    \/ \E c \in Desk.conns : Connect(c)
    \/ \E c \in Desk.conns, r \in Desk.codes, n \in Desk.names : JoinRoom(c, r, n)
    \/ \E c \in Desk.conns, n \in Desk.names : CreateBegin(c, n)
    \/ \E code \in Desk.codes : Draw(code)
    \/ \E c \in Desk.conns : Disconnect(c)
    \/ EndTurn

Next == Step(Hall)
NextStudio == Step(Studio)
NextLobby == Step(Lobby)
NextFoyer == Step(Foyer)
NextSolo == Step(Solo)

Spec == Init /\ [][Next]_vars
SpecStudio == Init /\ [][NextStudio]_vars
SpecLobby == Init /\ [][NextLobby]_vars
SpecFoyer == Init /\ [][NextFoyer]_vars
SpecSolo == Init /\ [][NextSolo]_vars

\* A fair generator: every code of the space keeps being returned, so a pass
\* of the loop that could draw it is not put off forever.
SpecDraw ==
    Init /\ [][NextDraw]_vars /\ \A code \in Desk.codes : WF_vars(Draw(code))

\* ------------------------------------------------------------------ claims
\* C1: every room of the registry has a hostId that is the id of one of the
\* entries of its users list, whatever requests connections have sent.
C1_HostIsMember ==
    \A r \in DOMAIN rooms : rooms[r].hostId \in UserIds(rooms[r].users)

\* C1 witness: a host has left a room that others are still in, and the room
\* has a host other than the one that created it.
C1_Witness ==
    /\ last = [op |-> "disconnect", result |-> "ok"]
    /\ \E r \in DOMAIN rooms :
         /\ \E i \in 1..Len(outbox) : outbox[i].ev = "user-left"
         /\ conn[rooms[r].hostId] = "open"
         /\ \E c \in Conns : conn[c] = "closed" /\ c \notin UserIds(rooms[r].users)

\* a host-gated request of connection c that names room r, whatever else it
\* carries
ControlRequest(c, r) ==
    \/ \E m \in Media, a \in BOOLEAN : LoadMedia(c, r, m, a)
    \/ \E t \in Times : Play(c, r, t)
    \/ Pause(c, r)
    \/ \E t \in Times : Seek(c, r, t)
    \/ NextVideo(c, r)
    \/ PrevVideo(c, r)

\* C2: a play, pause, seek, load-media, next-video or prev-video request from a
\* connection that is not the room's hostId (member or not) leaves every field
\* of the room as it was and emits no event.
C2_NonHostChangesNothing ==
    [][\A c \in Conns, r \in DOMAIN rooms :
         (rooms[r].hostId # c /\ ControlRequest(c, r))
             => (rooms' = rooms /\ outbox' = <<>>)]_vars

\* C2 witness: a member that is not the host has sent a control request to a
\* room that is playing, and the listener returned at the host guard.
C2_Witness ==
    /\ last.result = "not-host"
    /\ outbox = <<>>
    /\ \E r \in DOMAIN rooms, c \in Conns :
         /\ conn[c] = "open"
         /\ c \in UserIds(rooms[r].users)
         /\ r \in Range(socketRooms[c])
         /\ rooms[r].hostId # c
         /\ rooms[r].isPlaying
         /\ rooms[r].queue # <<>>

\* currentIndex is an index of a non-empty queue
IndexInRange(room) ==
    room.queue # <<>> => room.currentIndex \in 0..(Len(room.queue) - 1)

\* C3: in every room with a non-empty queue currentIndex is an integer with
\* 0 <= currentIndex < len(queue), and a host next-video (prev-video) on a queue
\* of length N moves currentIndex from i to (i + 1) mod N ((i - 1) mod N).
C3_IndexModular ==
    [][/\ \A r \in DOMAIN rooms' : IndexInRange(rooms'[r])
       /\ \A c \in Conns, r \in DOMAIN rooms :
            LET i == rooms[r].currentIndex
                N == Len(rooms[r].queue)
            IN (Gate(c, r) = "ok" /\ N > 0)
                 => /\ NextVideo(c, r)
                         => rooms'[r].currentIndex = (i + 1) % N
                    /\ PrevVideo(c, r)
                         => rooms'[r].currentIndex = (i + N - 1) % N]_vars

\* C4: a host next-video or prev-video on a room whose queue is empty is
\* rejected: the room keeps every field and neither media-updated nor
\* sync-seek is broadcast.
C4_EmptyQueueNavRejected ==
    [][\A c \in Conns, r \in DOMAIN rooms :
         (/\ Gate(c, r) = "ok"
          /\ rooms[r].queue = <<>>
          /\ NextVideo(c, r) \/ PrevVideo(c, r))
             => /\ rooms' = rooms
                /\ \A i \in 1..Len(outbox') :
                     outbox'[i].ev \notin {"media-updated", "sync-seek"}]_vars

\* C5: a room leaves the registry in the step in which its users list becomes
\* empty: after the disconnect of its last remaining member its code is no
\* longer in the registry, and no room of the registry has an empty users list.
C5_EmptyRoomRemoved ==
    [][/\ \A r \in DOMAIN rooms' : rooms'[r].users # <<>>
       /\ \A c \in Conns, r \in DOMAIN rooms :
            (Disconnect(c) /\ UserIds(rooms[r].users) = {c})
                => r \notin DOMAIN rooms']_vars

\* C6: when the host of a room disconnects and other members remain, hostId
\* becomes the id of the earliest-joined remaining member, whose next control
\* request passes the guards while that of any other remaining member does not.
C6_HostPromotion ==
    [][\A c \in Conns, r \in DOMAIN rooms :
         LET rest == FilterOut(rooms[r].users, c)
         IN (Disconnect(c) /\ rooms[r].hostId = c /\ rest # <<>>)
              => /\ r \in DOMAIN rooms'
                 /\ rooms'[r].hostId = rest[1].id
                 /\ \A d \in UserIds(rest) :
                      (Gate(d, r)' = "ok") <=> (d = rest[1].id)]_vars

\* C7: no users list holds two entries with the same connection id, also after
\* a connection joins a room twice or joins the room it created.
C7_NoDuplicateUsers ==
    \A r \in DOMAIN rooms :
      \A i, j \in 1..Len(rooms[r].users) :
        rooms[r].users[i].id = rooms[r].users[j].id => i = j

\* C8: in every room media is queue[currentIndex] when the queue is non-empty
\* and null when it is empty.
C8_MediaIsCurrent ==
    \A r \in DOMAIN rooms :
      rooms[r].media = IF rooms[r].queue = <<>> THEN Null
                       ELSE JsIndex(rooms[r].queue, rooms[r].currentIndex)

\* C9: every create-room is answered with a code that was not in the registry
\* when the room was inserted, so no two answers name the same live room, and
\* it leaves every room that was in the registry as it was.
C9_CreateNeverReusesLiveCode ==
    [][\A i \in 1..Len(outbox') :
         outbox'[i].ev = "room-created"
           => /\ outbox'[i].data.roomCode \notin DOMAIN rooms
              /\ outbox'[i].data.roomCode \in DOMAIN rooms'
              /\ \A r \in DOMAIN rooms :
                   r \in DOMAIN rooms' /\ rooms'[r] = rooms[r]]_vars

\* C9 witness: a connection has just created a room while the room another
\* connection created is live.
C9_Witness ==
    /\ last = [op |-> "create-room", result |-> "ok"]
    /\ \E r1, r2 \in DOMAIN rooms :
         /\ r1 # r2
         /\ rooms[r1].hostId # rooms[r2].hostId
         /\ outbox = <<Ev("room-created", {rooms[r2].hostId}, [roomCode |-> r2])>>

\* C10: a voice-offer, voice-answer or ice-candidate with (roomCode, targetId,
\* payload) is handed to connection targetId and to no other connection, with
\* the payload as sent and the sender's id as fromId.
C10_RelayToTargetOnly ==
    [][\A c, t \in Conns, r \in Codes, p \in Payloads :
         LET to == {t}
         IN (t # c /\ conn[t] = "open") =>
            /\ VoiceOffer(c, r, p, t)
                 => outbox' = <<Ev("voice-offer", to,
                                   [offer |-> p, fromId |-> c])>>
            /\ VoiceAnswer(c, r, p, t)
                 => outbox' = <<Ev("voice-answer", to,
                                   [answer |-> p, fromId |-> c])>>
            /\ IceCandidate(c, r, p, t)
                 => outbox' = <<Ev("ice-candidate", to,
                                   [candidate |-> p, fromId |-> c])>>]_vars

\* the connected connections among the ids of a users list
OpenMembers(us) == {d \in UserIds(us) : conn[d] = "open"}

\* the positions of the events named ev in a list of emits
EventsNamed(emits, ev) == {i \in 1..Len(emits) : emits[i].ev = ev}

\* C11: a successful join-room emits exactly one room-state, to the joiner only,
\* whose fields are the room's state at that moment (the state the earlier
\* requests left, with the joiner's name last in the names in join order), and
\* one user-joined with the joiner's name to every member that was there before
\* and not to the joiner.
C11_JoinSnapshot ==
    [][\A c \in Conns, r \in DOMAIN rooms, n \in Names :
         JoinRoom(c, r, n) =>
           LET old == rooms[r]
               new == rooms'[r]
           IN /\ new = [old EXCEPT !.users = Append(@, [id |-> c, name |-> n])]
              /\ Cardinality(EventsNamed(outbox', "room-state")) = 1
              /\ Cardinality(EventsNamed(outbox', "user-joined")) = 1
              /\ \A i \in EventsNamed(outbox', "room-state") :
                   /\ outbox'[i].to = {c}
                   /\ outbox'[i].data =
                        [media |-> new.media, queue |-> new.queue,
                         currentIndex |-> new.currentIndex,
                         isPlaying |-> new.isPlaying,
                         currentTime |-> new.currentTime,
                         hostId |-> new.hostId,
                         users |-> [k \in 1..Len(new.users) |->
                                      new.users[k].name]]
              /\ \A i \in EventsNamed(outbox', "user-joined") :
                   /\ outbox'[i].to = OpenMembers(old.users) \ {c}
                   /\ outbox'[i].data = [name |-> n]]_vars

\* C11 witness: a third connection has joined, under another name than the
\* host's, a room that has media loaded and is playing; both earlier members
\* were told and the joiner got the snapshot.
C11_Witness ==
    /\ last = [op |-> "join-room", result |-> "ok"]
    /\ Len(outbox) = 2
    /\ Cardinality(outbox[1].to) = 2
    /\ outbox[2].ev = "room-state"
    /\ outbox[2].data.isPlaying
    /\ outbox[2].data.media = "m1"
    /\ Len(outbox[2].data.users) = 3
    /\ outbox[2].data.users[1] # outbox[2].data.users[3]

\* a send-chat or voice request of connection c naming room r
TalkRequest(c, r) ==
    \/ \E m \in Messages, n \in Names : SendChat(c, r, m, n)
    \/ \E p \in Payloads, t \in Conns \cup Codes :
         \/ VoiceOffer(c, r, p, t)
         \/ VoiceAnswer(c, r, p, t)
         \/ IceCandidate(c, r, p, t)

\* C12 (non-members): a send-chat or voice-* request naming a room the sender
\* is not a member of delivers no event to any member of that room.
C12_NonMemberSilent ==
    [][\A c \in Conns, r \in DOMAIN rooms :
         ( /\ c \notin UserIds(rooms[r].users)
           /\ r \notin Range(socketRooms[c])
           /\ TalkRequest(c, r) )
         => \A i \in 1..Len(outbox') :
              outbox'[i].to \cap OpenMembers(rooms[r].users) = {}]_vars

\* C12 (members): a send-chat of a member is one new-chat to the whole room
\* under the name stored at join, whatever userName the request carries.
C12_ChatUsesStoredName ==
    [][\A c \in Conns, r \in DOMAIN rooms, m \in Messages, n \in Names :
         ( /\ c \in UserIds(rooms[r].users)
           /\ r \in Range(socketRooms[c])
           /\ SendChat(c, r, m, n) )
         => /\ Len(outbox') = 1
            /\ outbox'[1].ev = "new-chat"
            /\ outbox'[1].to = Group(socketRooms, r)
            /\ outbox'[1].data.message = m
            /\ \E k \in 1..Len(rooms[r].users) :
                 /\ rooms[r].users[k].id = c
                 /\ rooms[r].users[k].name = outbox'[1].data.user]_vars

\* C13: a join-room naming a code with no room changes no room, no transport
\* group, creates no room, and emits exactly one event: error, to the
\* requester only.
C13_UnknownCodeRejected ==
    [][\A c \in Conns, r \in Codes \ DOMAIN rooms, n \in Names :
         JoinRoom(c, r, n) =>
           /\ rooms' = rooms
           /\ socketRooms' = socketRooms
           /\ Len(outbox') = 1
           /\ outbox'[1].ev = "error"
           /\ outbox'[1].to = {c}]_vars

\* C13 witness: an unknown code was refused while another room exists and a
\* second connection is open.
C13_Witness ==
    /\ last = [op |-> "join-room", result |-> "room-not-found"]
    /\ DOMAIN rooms # {}
    /\ \A c \in {"s1", "s2"} : conn[c] = "open"
    /\ Len(outbox) = 1
    /\ Cardinality(outbox[1].to) = 1

\* C14: a play(t) of the host sets isPlaying to true and currentTime to t and
\* emits one sync-play, carrying currentTime t and the server's timestamp, to
\* every connected member of the room, the host included.
C14_PlayBroadcast ==
    [][\A c \in Conns, r \in DOMAIN rooms, t \in Times :
         (Gate(c, r) = "ok" /\ Play(c, r, t)) =>
           /\ rooms'[r].isPlaying = TRUE
           /\ rooms'[r].currentTime = t
           /\ Len(outbox') = 1
           /\ outbox'[1].ev = "sync-play"
           /\ outbox'[1].to = OpenMembers(rooms[r].users)
           /\ c \in outbox'[1].to
           /\ outbox'[1].data.currentTime = t
           /\ outbox'[1].data.timestamp = Now]_vars

\* C14 witness: the host played at a time other than the stored one in a room
\* of three connected members, and all three were sent the sync-play.
C14_Witness ==
    /\ last = [op |-> "play", result |-> "ok"]
    /\ Len(outbox) = 1
    /\ outbox[1].to = Conns
    /\ outbox[1].data.currentTime = MaxTime

\* C15: the media-updated event of an accepted load-media carries the state
\* the request left: its media is the room's media after the operation, and
\* its queue and currentIndex are the room's, whichever addToQueue was given.
C15_MediaUpdatedCarriesState ==
    [][\A c \in Conns, r \in DOMAIN rooms, m \in Media, a \in BOOLEAN :
         (Gate(c, r) = "ok" /\ LoadMedia(c, r, m, a)) =>
           /\ Len(outbox') = 1
           /\ outbox'[1].ev = "media-updated"
           /\ outbox'[1].data.media = rooms'[r].media
           /\ outbox'[1].data.queue = rooms'[r].queue
           /\ outbox'[1].data.currentIndex = rooms'[r].currentIndex]_vars

\* C16: an accepted load-media with addToQueue = true appends the item to the
\* queue and changes nothing else; with addToQueue = false it makes the queue
\* the single item, currentIndex 0 and media the item. Neither changes
\* isPlaying, currentTime, users or hostId.
C16_LoadMediaFrame ==
    [][\A c \in Conns, r \in DOMAIN rooms, m \in Media, a \in BOOLEAN :
         (Gate(c, r) = "ok" /\ LoadMedia(c, r, m, a)) =>
           /\ a => /\ rooms'[r].queue = rooms[r].queue \o <<m>>
                   /\ rooms'[r].currentIndex = rooms[r].currentIndex
                   /\ rooms'[r].media = rooms[r].media
           /\ ~a => /\ rooms'[r].queue = <<m>>
                    /\ rooms'[r].currentIndex = 0
                    /\ rooms'[r].media = m
           /\ rooms'[r].isPlaying = rooms[r].isPlaying
           /\ rooms'[r].currentTime = rooms[r].currentTime
           /\ rooms'[r].users = rooms[r].users
           /\ rooms'[r].hostId = rooms[r].hostId]_vars

\* C16 witness: a load-media was accepted in a playing room of two members at
\* a non-zero time, and the room now plays the one-item queue it names.
C16_Witness ==
    /\ last = [op |-> "load-media", result |-> "ok"]
    /\ "R1" \in DOMAIN rooms
    /\ rooms["R1"].isPlaying
    /\ rooms["R1"].currentTime = MaxTime
    /\ Len(rooms["R1"].users) = 2
    /\ rooms["R1"].queue = <<"m2">>
    /\ rooms["R1"].media = "m2"
    /\ rooms["R1"].currentIndex = 0

\* C17: an accepted next-video or prev-video of the host leaves media equal to
\* the queue item at the new currentIndex, currentTime 0 and isPlaying false,
\* and emits to the room media-updated and directly after it sync-seek with
\* newTime 0, and nothing else.
C17_NavigateEffect ==
    [][\A c \in Conns, r \in DOMAIN rooms :
         (Gate(c, r) = "ok" /\ (NextVideo(c, r) \/ PrevVideo(c, r))) =>
           LET new == rooms'[r]
           IN /\ new.media = JsIndex(new.queue, new.currentIndex)
              /\ new.currentIndex \in 0..(Len(new.queue) - 1)
                   => new.media = new.queue[new.currentIndex + 1]
              /\ new.queue = rooms[r].queue
              /\ new.currentTime = 0
              /\ new.isPlaying = FALSE
              /\ Len(outbox') = 2
              /\ outbox'[1].ev = "media-updated"
              /\ outbox'[1].to = Group(socketRooms, r)
              /\ outbox'[1].data = [media |-> new.media, queue |-> new.queue,
                                    currentIndex |-> new.currentIndex]
              /\ outbox'[2].ev = "sync-seek"
              /\ outbox'[2].to = Group(socketRooms, r)
              /\ outbox'[2].data.newTime = 0]_vars

\* C17 witness: prev-video was accepted on a queue of two different items and
\* the room, with two members, now shows the second one, paused at 0.
C17_Witness ==
    /\ last = [op |-> "prev-video", result |-> "ok"]
    /\ "R1" \in DOMAIN rooms
    /\ rooms["R1"].queue = <<"m1", "m2">>
    /\ rooms["R1"].currentIndex = 1
    /\ rooms["R1"].media = "m2"
    /\ Len(outbox) = 2
    /\ outbox[1].to = {"s1", "s2"}

\* a play, pause or seek request of connection c naming room r
PlaybackRequest(c, r) ==
    \/ \E t \in Times : Play(c, r, t)
    \/ Pause(c, r)
    \/ \E t \in Times : Seek(c, r, t)

\* C18: an accepted pause sets isPlaying to false and leaves currentTime; an
\* accepted seek sets currentTime and leaves isPlaying; no play, pause or seek
\* changes the queue, currentIndex, media, users or hostId of its room, nor
\* any field of any other room, nor which rooms exist.
C18_PlaybackFrame ==
    [][\A c \in Conns, r \in DOMAIN rooms :
         /\ (Gate(c, r) = "ok" /\ Pause(c, r)) =>
              /\ rooms'[r].isPlaying = FALSE
              /\ rooms'[r].currentTime = rooms[r].currentTime
         /\ \A t \in Times :
              (Gate(c, r) = "ok" /\ Seek(c, r, t)) =>
                /\ rooms'[r].currentTime = t
                /\ rooms'[r].isPlaying = rooms[r].isPlaying
         /\ PlaybackRequest(c, r) =>
              /\ DOMAIN rooms' = DOMAIN rooms
              /\ rooms'[r].queue = rooms[r].queue
              /\ rooms'[r].currentIndex = rooms[r].currentIndex
              /\ rooms'[r].media = rooms[r].media
              /\ rooms'[r].users = rooms[r].users
              /\ rooms'[r].hostId = rooms[r].hostId
              /\ \A o \in DOMAIN rooms \ {r} : rooms'[o] = rooms[o]]_vars

\* C18 witness: of two rooms of one host, one was just paused at a non-zero
\* time with media loaded while the other is still playing.
C18_Witness ==
    /\ last = [op |-> "pause", result |-> "ok"]
    /\ DOMAIN rooms = Codes
    /\ rooms["R1"].isPlaying = FALSE
    /\ rooms["R1"].currentTime = MaxTime
    /\ rooms["R1"].media = "m1"
    /\ rooms["R2"].isPlaying = TRUE

\* C19: with a fair generator a create-room that has a free code to find
\* leaves its retry loop: the room is stored with the requester as host and
\* room-created is sent to the requester. With every code of the space in the
\* registry the request stays in the loop forever.
C19_CreateTerminates ==
    /\ \A c \in Desk.conns :
         (Drawing /\ last.socket = c /\ FreeCodes(rooms, Desk.codes) # {})
           ~> ( /\ last = [op |-> "create-room", result |-> "ok"]
                /\ Len(outbox) = 1
                /\ outbox[1].ev = "room-created"
                /\ outbox[1].to = {c}
                /\ outbox[1].data.roomCode \in DOMAIN rooms
                /\ rooms[outbox[1].data.roomCode].hostId = c )
    /\ []((Drawing /\ FreeCodes(rooms, Desk.codes) = {})
            => [](Drawing /\ outbox = <<>>))

\* C19 witness: the loop has drawn a taken code and gone round again while
\* another code is still free.
C19_Witness ==
    /\ Drawing
    /\ last.roomCode \in DOMAIN rooms
    /\ FreeCodes(rooms, Desk.codes) # {}

\* C19, the other case reached: a request is in the loop with no code free.
C19_WitnessFull ==
    /\ Drawing
    /\ FreeCodes(rooms, Desk.codes) = {}

\* C20: in every room the set of ids in users is the set of connected
\* connections in the transport group named by the room's code, and a
\* disconnect takes the connection out of the users of every room it was in
\* and takes nobody else out of any room.
C20_UsersMatchGroup ==
    [][/\ \A r \in DOMAIN rooms' :
            UserIds(rooms'[r].users) = Group(socketRooms', r)
       /\ \A c \in Conns, r \in DOMAIN rooms :
            (Disconnect(c) /\ r \in DOMAIN rooms')
              => UserIds(rooms'[r].users) = UserIds(rooms[r].users) \ {c}]_vars

====
